---- MODULE Spec2Model ----
(***************************************************************************)
(* Model of the portfolio content API (src/main.py, src/schemas.py).       *)
(*                                                                         *)
(* Values.  Every Python value is a tagged record [ty |-> .., v |-> ..]:   *)
(*   str       v is the sequence of its characters (one-character strings) *)
(*   list      v is a sequence of character sequences (a List[str])        *)
(*   dict      v is a function from key names to values                    *)
(*   date      v is a day number                                           *)
(*   datetime  v is a clock reading                                        *)
(*   oid       v is the 24 lower-case hex characters of a bson ObjectId    *)
(*   None      Python's None                                               *)
(* A document is a function from field names to such values.  A collection *)
(* is the sequence of its documents in the store's natural order.          *)
(***************************************************************************)
EXTENDS Integers, Sequences, FiniteSets, TLC

VARIABLES
    store,      \* collection name -> sequence of documents
    nextId,     \* number of identifiers the store has generated so far
    now,        \* the reading of datetime.utcnow()
    th,         \* per request slot: where its handler stands, and its locals
    resp        \* the response of the request that completed last

vars == <<store, nextId, now, th, resp>>

----------------------------------------------------------------------------
(* Bounds of the model *)

MaxIds == 2         \* documents created in a run of the CRUD specification
MaxTime == 1        \* clock readings 0..MaxTime
MaxDocs == 6        \* longest collection drawn for a query
MaxStatIds == 3     \* documents created in a run of the stats specification
MaxProfiles == 2    \* profiles created in a run of the profile specification

(* Program constants *)

TopK == 5           \* ranked[:5]
OidLen == 24        \* hex characters of an ObjectId

----------------------------------------------------------------------------
(* Python values *)

Str(s) == [ty |-> "str", v |-> s]
List(l) == [ty |-> "list", v |-> l]
Dict(f) == [ty |-> "dict", v |-> f]
Date(n) == [ty |-> "date", v |-> n]
Datetime(n) == [ty |-> "datetime", v |-> n]
Oid(s) == [ty |-> "oid", v |-> s]
None == [ty |-> "None", v |-> 0]

IsNone(x) == "ty" \in DOMAIN x /\ x.ty = "None"

EmptyDoc == [k \in {} |-> None]

----------------------------------------------------------------------------
(* Text: str.lower, str.split, str.strip, str.join, the `in` of two strs.
   A printable ASCII character is written as itself, "\t" "\n" "\r" "\f" as
   escaped, and every other character by its code point: "U+00C9".  The
   alphabet of the model is ASCII, Latin-1, U+0130 with U+0307 (a letter
   whose lower case is two characters), the em dash U+2014 and every
   character Python counts as whitespace. *)

UpperSeq == <<"A","B","C","D","E","F","G","H","I","J","K","L","M",
              "N","O","P","Q","R","S","T","U","V","W","X","Y","Z">>
LowerSeq == <<"a","b","c","d","e","f","g","h","i","j","k","l","m",
              "n","o","p","q","r","s","t","u","v","w","x","y","z">>

\* the upper-case letters of Latin-1 and, in the same order, their lower case
UpperLatin1 ==
    <<"U+00C0", "U+00C1", "U+00C2", "U+00C3", "U+00C4", "U+00C5", "U+00C6",
      "U+00C7", "U+00C8", "U+00C9", "U+00CA", "U+00CB", "U+00CC", "U+00CD",
      "U+00CE", "U+00CF", "U+00D0", "U+00D1", "U+00D2", "U+00D3", "U+00D4",
      "U+00D5", "U+00D6", "U+00D8", "U+00D9", "U+00DA", "U+00DB", "U+00DC",
      "U+00DD", "U+00DE">>
LowerLatin1 ==
    <<"U+00E0", "U+00E1", "U+00E2", "U+00E3", "U+00E4", "U+00E5", "U+00E6",
      "U+00E7", "U+00E8", "U+00E9", "U+00EA", "U+00EB", "U+00EC", "U+00ED",
      "U+00EE", "U+00EF", "U+00F0", "U+00F1", "U+00F2", "U+00F3", "U+00F4",
      "U+00F5", "U+00F6", "U+00F8", "U+00F9", "U+00FA", "U+00FB", "U+00FC",
      "U+00FD", "U+00FE">>

\* str.lower() of one character: a sequence, since that of U+0130 is two
LowerTable ==
    [c \in {UpperSeq[i] : i \in 1..Len(UpperSeq)}
            \cup {UpperLatin1[i] : i \in 1..Len(UpperLatin1)} \cup {"U+0130"} |->
        IF c = "U+0130" THEN <<"i", "U+0307">>
        ELSE IF \E i \in 1..Len(UpperSeq) : UpperSeq[i] = c
        THEN <<LowerSeq[CHOOSE i \in 1..Len(UpperSeq) : UpperSeq[i] = c]>>
        ELSE <<LowerLatin1[CHOOSE i \in 1..Len(UpperLatin1) : UpperLatin1[i] = c]>>]

LowerChar(c) == IF c \in DOMAIN LowerTable THEN LowerTable[c] ELSE <<c>>

RECURSIVE LowerFrom(_, _)
LowerFrom(s, i) == IF i > Len(s) THEN <<>> ELSE LowerChar(s[i]) \o LowerFrom(s, i + 1)

\* str.lower()
Lower(s) ==
    IF \A i \in 1..Len(s) : s[i] # "U+0130"
    THEN [i \in 1..Len(s) |-> LowerChar(s[i])[1]]
    ELSE LowerFrom(s, 1)

\* the characters str.split() and str.strip() treat as whitespace: those of
\* str.isspace()
Whitespace ==
    {"\t", "\n", "U+000B", "\f", "\r", "U+001C", "U+001D", "U+001E",
     "U+001F", " ", "U+0085", "U+00A0", "U+1680", "U+2000", "U+2001",
     "U+2002", "U+2003", "U+2004", "U+2005", "U+2006", "U+2007", "U+2008",
     "U+2009", "U+200A", "U+2028", "U+2029", "U+202F", "U+205F", "U+3000"}

\* str.split() with no separator: the maximal runs of non-whitespace
RECURSIVE SplitFrom(_, _, _, _)
SplitFrom(s, i, cur, acc) ==
    IF i > Len(s)
    THEN IF cur = <<>> THEN acc ELSE Append(acc, cur)
    ELSE IF s[i] \in Whitespace
         THEN SplitFrom(s, i + 1, <<>>, IF cur = <<>> THEN acc ELSE Append(acc, cur))
         ELSE SplitFrom(s, i + 1, Append(cur, s[i]), acc)

Split(s) == SplitFrom(s, 1, <<>>, <<>>)

\* str.strip(): leading and trailing whitespace removed
RECURSIVE LStrip(_)
LStrip(s) == IF s # <<>> /\ Head(s) \in Whitespace THEN LStrip(Tail(s)) ELSE s

RECURSIVE RStrip(_)
RStrip(s) ==
    IF s # <<>> /\ s[Len(s)] \in Whitespace THEN RStrip(SubSeq(s, 1, Len(s) - 1)) ELSE s

Strip(s) == RStrip(LStrip(s))

\* sep.join(parts)
RECURSIVE Join(_, _)
Join(sep, parts) ==
    IF parts = <<>> THEN <<>>
    ELSE IF Len(parts) = 1 THEN parts[1]
    ELSE parts[1] \o sep \o Join(sep, Tail(parts))

\* sub in text
Contains(text, sub) ==
    \E i \in 0..(Len(text) - Len(sub)) : SubSeq(text, i + 1, i + Len(sub)) = sub

\* str(n) of a non-negative integer
DigitSeq == <<"0","1","2","3","4","5","6","7","8","9">>

RECURSIVE Digits(_)
Digits(n) == IF n < 10 THEN <<DigitSeq[n + 1]>> ELSE Digits(n \div 10) \o <<DigitSeq[(n % 10) + 1]>>

----------------------------------------------------------------------------
(* Identifiers: bson.ObjectId and to_oid *)

HexSeq == <<"0","1","2","3","4","5","6","7","8","9","a","b","c","d","e","f">>
HexChars == {HexSeq[i] : i \in 1..Len(HexSeq)} \cup {"A","B","C","D","E","F"}

\* the whitespace bytes.fromhex skips before a pair of hex digits
HexSpace == {" ", "\t", "\n", "\r", "U+000B", "\f"}

\* bytes.fromhex reads s from position i on: whitespace is skipped before a
\* pair of hex digits, and anything else is a ValueError
RECURSIVE hex_readable(_, _)
hex_readable(s, i) ==
    IF i > Len(s) THEN TRUE
    ELSE IF s[i] \in HexSpace THEN hex_readable(s, i + 1)
    ELSE /\ i < Len(s) /\ s[i] \in HexChars /\ s[i + 1] \in HexChars
         /\ hex_readable(s, i + 2)

\* the hex digits bytes.fromhex reads from a readable s
fromhex(s) == SelectSeq(s, LAMBDA ch : ch \notin HexSpace)

\* The first 23 hex characters of every identifier the store generates in a
\* run (timestamp, machine and process bytes, high counter digits).
OidPrefix == <<"6","5","f","0","c","1","a","2","b","3","d","4",
               "e","5","f","6","a","7","b","8","c","9","0">>

\* str() of the n-th identifier the store generates (0 < n < 16)
OidOf(n) == OidPrefix \o <<HexSeq[n + 1]>>

\* ObjectId(id_str) accepts the strings of 24 characters that bytes.fromhex
\* reads: 24 hex digits, or fewer with whitespace before some of the pairs
OidValid(s) == Len(s) = OidLen /\ hex_readable(s, 1)

\* the value ObjectId(id_str) denotes: the bytes read, as lower-case hex.
\* It has 12 bytes (24 digits) unless id_str held whitespace.
ObjectId(s) == Oid(Lower(fromhex(s)))

\* the HTTPException a handler raises
HTTPException(code) == [ty |-> "HTTPException", v |-> code]

IsError(x) == "ty" \in DOMAIN x /\ x.ty = "HTTPException"

\* to_oid: the ObjectId, or HTTPException(400) when ObjectId() raises
to_oid(id_str) == IF OidValid(id_str) THEN ObjectId(id_str) ELSE HTTPException(400)

\* a fault of the store call, which no handler catches: a 500
StoreFault == HTTPException(500)

----------------------------------------------------------------------------
(* Serialization *)

\* datetime.isoformat()
isoformat(n) == <<"T">> \o Digits(n)

\* Python truth value of a field value
Truthy(x) ==
    CASE x.ty = "None" -> FALSE
      [] x.ty \in {"str", "list"} -> x.v # <<>>
      [] x.ty = "dict" -> DOMAIN x.v # {}
      [] OTHER -> TRUE

\* d.get(k, default)
Get(d, k, default) == IF k \in DOMAIN d THEN d[k] ELSE default

\* as_serializable, the variant that keeps the store's _id and adds no id
as_serializable_keep_id(doc) ==
    IF IsNone(doc) \/ DOMAIN doc = {} THEN doc
    ELSE [k \in DOMAIN doc |->
             IF doc[k].ty = "datetime" THEN Str(isoformat(doc[k].v)) ELSE doc[k]]

\* as_serializable: a falsy doc as it is; else _id popped into id as text,
\* and every datetime rendered by isoformat
as_serializable(doc) ==
    IF IsNone(doc) \/ DOMAIN doc = {} THEN doc
    ELSE LET d == IF Truthy(Get(doc, "_id", None))
                  THEN [k \in (DOMAIN doc \ {"_id"}) \cup {"id"} |->
                           IF k = "id" THEN Str(doc["_id"].v) ELSE doc[k]]
                  ELSE doc
         IN  [k \in DOMAIN d |->
                 IF d[k].ty = "datetime" THEN Str(isoformat(d[k].v)) ELSE d[k]]

\* coll_name: the lower-cased class name
coll_name(cls) ==
    CASE cls = "Profile" -> "profile"
      [] cls = "Project" -> "project"
      [] cls = "Certificate" -> "certificate"
      [] cls = "JournalEntry" -> "journalentry"
      [] cls = "SkillSnapshot" -> "skillsnapshot"
      [] cls = "Milestone" -> "milestone"

Collections == {"profile", "project", "certificate", "journalentry",
                "skillsnapshot", "milestone"}

----------------------------------------------------------------------------
(* The schemas: what a validated model holds besides the fields sent *)

System == <<"s", "y", "s", "t", "e", "m">>
General == <<"g", "e", "n", "e", "r", "a", "l">>

\* the fields of a schema class that have a default, with the default
Defaults(cls) ==
    CASE cls = "Profile" ->
            [traits |-> List(<<>>), about |-> Str(<<>>), avatar_url |-> None,
             location |-> None, email |-> None, website |-> None,
             resume_url |-> None, theme_preference |-> Str(System)]
      [] cls = "Project" ->
            [thumbnail_url |-> None, tech_stack |-> List(<<>>), github_url |-> None,
             live_demo_url |-> None, highlights |-> List(<<>>), challenges |-> List(<<>>),
             solutions |-> List(<<>>), year |-> None]
      [] cls = "Certificate" -> [asset_url |-> None, reflection |-> Str(<<>>)]
      [] cls = "JournalEntry" ->
            [tags |-> List(<<>>), linked_project_title |-> None,
             linked_certificate_title |-> None]
      [] cls = "SkillSnapshot" -> [skills |-> Dict(EmptyDoc)]
      [] cls = "Milestone" -> [kind |-> Str(General)]

\* the model a handler receives for a request body that passes validation:
\* the fields sent and, for the others, their defaults
Model(cls, sent) ==
    [k \in DOMAIN sent \cup DOMAIN Defaults(cls) |->
        IF k \in DOMAIN sent THEN sent[k] ELSE Defaults(cls)[k]]

----------------------------------------------------------------------------
(* The document store: the collection calls the handlers make *)

\* positions in collection c of the documents whose _id is oid
Matching(s, c, oid) == {i \in 1..Len(s[c]) : s[c][i]["_id"] = oid}

\* db[c].find_one({"_id": oid})
find_one(s, c, oid) ==
    IF Matching(s, c, oid) = {} THEN None
    ELSE s[c][CHOOSE i \in Matching(s, c, oid) : \A j \in Matching(s, c, oid) : i <= j]

\* db[c].find(): every document, in natural order
find(s, c) == s[c]

\* db[c].count_documents({})
count_documents(s, c) == Len(s[c])

\* db[c].insert_one(doc): the document at the end of the natural order
insert_one(s, c, doc) == [s EXCEPT ![c] = Append(@, doc)]

\* the document after {"$set": setdoc}
ApplySet(doc, setdoc) ==
    [k \in DOMAIN doc \cup DOMAIN setdoc |-> IF k \in DOMAIN setdoc THEN setdoc[k] ELSE doc[k]]

\* db[c].update_one({"_id": oid}, {"$set": setdoc}): the first match is changed in place
update_one(s, c, oid, setdoc) ==
    [s EXCEPT ![c] = [i \in 1..Len(@) |->
        IF s[c][i]["_id"] = oid THEN ApplySet(s[c][i], setdoc) ELSE s[c][i]]]

\* matched_count of that update_one
matched_count(s, c, oid) == IF Matching(s, c, oid) = {} THEN 0 ELSE 1

RECURSIVE Without(_, _)
Without(docs, oid) ==
    IF docs = <<>> THEN <<>>
    ELSE IF Head(docs)["_id"] = oid THEN Tail(docs)
    ELSE <<Head(docs)>> \o Without(Tail(docs), oid)

\* db[c].delete_one({"_id": oid})
delete_one(s, c, oid) == [s EXCEPT ![c] = Without(@, oid)]

\* deleted_count of that delete_one
deleted_count(s, c, oid) == IF Matching(s, c, oid) = {} THEN 0 ELSE 1

\* What reaches collection c as the filter {"_id": oid}.  The 12 bytes of a
\* whole ObjectId.  An ObjectId of fewer bytes is encoded without a check of
\* its length: the pure-Python encoder sends the short value, a malformed
\* document the server refuses; the C encoder copies 12 bytes from where the
\* value is kept: the 11 of the value and the 0 that ends it, or, of a
\* shorter value, bytes behind it that may complete any identifier (a stored
\* one, or else one that matches nothing, as the short value itself does).
Sent(s, c, oid) ==
    IF Len(oid.v) = OidLen THEN {oid}
    ELSE IF Len(oid.v) = OidLen - 2 THEN {StoreFault, Oid(oid.v \o <<"0", "0">>)}
    ELSE {StoreFault, oid}
         \cup {s[c][i]["_id"] : i \in {j \in 1..Len(s[c]) :
                   SubSeq(s[c][j]["_id"].v, 1, Len(oid.v)) = oid.v}}

\* database.create_document: the model's fields and the creation timestamps are
\* inserted under a fresh identifier
NewDoc(n, fields, t) ==
    [k \in DOMAIN fields \cup {"_id", "created_at", "updated_at"} |->
        CASE k = "_id" -> Oid(OidOf(n))
          [] k \in {"created_at", "updated_at"} -> Datetime(t)
          [] OTHER -> fields[k]]

create_document(s, c, n, fields, t) == insert_one(s, c, NewDoc(n, fields, t))

\* database.get_documents(collection, {}, limit): find(), cut to limit when given
get_documents(s, c, limit) ==
    IF limit > 0 /\ limit < Len(find(s, c)) THEN SubSeq(find(s, c), 1, limit) ELSE find(s, c)

\* list_items(model_cls, limit) with no filter
list_items(s, cls, limit) ==
    LET docs == get_documents(s, coll_name(cls), limit)
    IN  [i \in 1..Len(docs) |-> as_serializable(docs[i])]

----------------------------------------------------------------------------
(* Requests and responses *)

\* The request slots: handlers run on a thread pool, so two run at once.
Threads == {1, 2}

\* A slot's locals.  pc is the store call the handler makes next; calls counts
\* the store calls it has made; acc holds what its earlier store calls gave.
\* Two history fields record what the claims speak of: written is the
\* document as the handler's own write left it, and raced tells whether
\* another request wrote since (that document, for a create or an update;
\* anything, for a handler that reads collections).
Idle == [pc |-> "idle", cls |-> "", id |-> <<>>, data |-> EmptyDoc,
         calls |-> 0, raced |-> FALSE, written |-> None, acc |-> EmptyDoc]

\* resp is the response the last step sent (NoResp when it sent none): the
\* handler, the status, the body and the number of store calls the handler
\* made.  For /ai/query it also records the request's payload (req) and, per
\* kind searched, the documents read, serialized and in store order (read),
\* and the sort key computed for each (keys): they are not part of the body.
\* For a handler that reads collections it records whether another request
\* wrote between its first store call and its last (raced).
NoResp == [op |-> "none", status |-> 0, body |-> None, calls |-> 0,
           req |-> EmptyDoc, keys |-> EmptyDoc, read |-> EmptyDoc, raced |-> FALSE]

Response(op, status, body, calls) ==
    [op |-> op, status |-> status, body |-> body, calls |-> calls,
     req |-> EmptyDoc, keys |-> EmptyDoc, read |-> EmptyDoc, raced |-> FALSE]

\* the pc values of the handlers that read whole collections
Readers == {"query", "stats"}

\* the slots after slot t wrote document oid of collection c: every other
\* handler that stands between its own write of that document and its
\* re-read, or between two of its reads of collections, has been raced
Raced(t, c, oid, slots) ==
    [u \in Threads |->
        IF /\ u # t
           /\ \/ slots[u].pc \in Readers
              \/ /\ slots[u].pc \in {"create_read", "update_read"}
                 /\ coll_name(slots[u].cls) = c
                 /\ slots[u].written["_id"] = oid
        THEN [slots[u] EXCEPT !.raced = TRUE]
        ELSE slots[u]]

\* f with the value v under key k
With(f, k, v) == [x \in DOMAIN f \cup {k} |-> IF x = k THEN v ELSE f[x]]

----------------------------------------------------------------------------
(* Generic CRUD helpers *)

\* create_item, first store call: new_id = create_document(collection, model)
CreateInsert(t, cls, fields, cap) ==
    /\ th[t].pc = "idle"
    /\ nextId < cap
    /\ nextId' = nextId + 1
    /\ store' = create_document(store, coll_name(cls), nextId', fields, now)
    /\ th' = [Raced(t, coll_name(cls), Oid(OidOf(nextId')), th) EXCEPT ![t] =
                [Idle EXCEPT !.pc = "create_read", !.cls = cls, !.id = OidOf(nextId'),
                             !.data = fields, !.calls = 1,
                             !.written = NewDoc(nextId', fields, now)]]
    /\ resp' = NoResp
    /\ UNCHANGED now

\* what create_item returns for the document its find_one gave
create_item_result(doc) == Response("create_item", 200, as_serializable(doc), 2)

\* create_item, second store call: find_one by the new id, then as_serializable
CreateRead(t) ==
    /\ th[t].pc = "create_read"
    /\ resp' = create_item_result(find_one(store, coll_name(th[t].cls), ObjectId(th[t].id)))
    /\ th' = [th EXCEPT ![t] = Idle]
    /\ UNCHANGED <<store, nextId, now>>

\* the $set document of update_item, the variant where the caller's fields win
SetDocCallerWins(data, t) ==
    [k \in DOMAIN data \cup {"updated_at"} |-> IF k \in DOMAIN data THEN data[k] ELSE Datetime(t)]

\* the $set document of update_item: {**data, "updated_at": datetime.utcnow()}
SetDoc(data, t) ==
    [k \in DOMAIN data \cup {"updated_at"} |-> IF k = "updated_at" THEN Datetime(t) ELSE data[k]]

\* update_item up to its first store call: to_oid, update_one, matched_count
UpdateWrite(t, cls, id_str, data) ==
    LET c == coll_name(cls)
        oid == to_oid(id_str)
    IN  /\ th[t].pc = "idle"
        /\ IF IsError(oid)
           THEN /\ resp' = Response("update_item", oid.v, None, 0)
                /\ UNCHANGED <<store, th>>
           ELSE \E f \in Sent(store, c, oid) :
                   IF IsError(f)
                   THEN /\ resp' = Response("update_item", f.v, None, 1)
                        /\ UNCHANGED <<store, th>>
                   ELSE IF matched_count(store, c, f) = 0
                   THEN /\ resp' = Response("update_item", 404, None, 1)
                        /\ UNCHANGED <<store, th>>
                   ELSE /\ store' = update_one(store, c, f, SetDoc(data, now))
                        /\ th' = [Raced(t, c, f, th) EXCEPT ![t] =
                                    [Idle EXCEPT !.pc = "update_read", !.cls = cls,
                                                 !.id = id_str, !.data = data, !.calls = 1,
                                                 !.written = find_one(store', c, f)]]
                        /\ resp' = NoResp
        /\ UNCHANGED <<nextId, now>>

\* update_item, second store call: find_one by to_oid(id_str), then as_serializable
UpdateRead(t) ==
    /\ th[t].pc = "update_read"
    /\ \E f \in Sent(store, coll_name(th[t].cls), to_oid(th[t].id)) :
          resp' = IF IsError(f)
                  THEN Response("update_item", f.v, None, 2)
                  ELSE Response("update_item", 200,
                                as_serializable(find_one(store, coll_name(th[t].cls), f)), 2)
    /\ th' = [th EXCEPT ![t] = Idle]
    /\ UNCHANGED <<store, nextId, now>>

\* delete_item, the variant that reports success whatever deleted_count is
DeleteStatusAlwaysOk(n) == 200

\* delete_item: 404 when deleted_count is 0
DeleteStatus(n) == IF n = 0 THEN 404 ELSE 200

\* delete_item: to_oid, delete_one, deleted_count
DeleteItem(t, cls, id_str) ==
    LET c == coll_name(cls)
        oid == to_oid(id_str)
    IN  /\ th[t].pc = "idle"
        /\ IF IsError(oid)
           THEN /\ resp' = Response("delete_item", oid.v, None, 0)
                /\ UNCHANGED <<store, th>>
           ELSE \E f \in Sent(store, c, oid) :
                   IF IsError(f)
                   THEN /\ resp' = Response("delete_item", f.v, None, 1)
                        /\ UNCHANGED <<store, th>>
                   ELSE /\ store' = delete_one(store, c, f)
                        /\ th' = IF deleted_count(store, c, f) = 0 THEN th
                                 ELSE Raced(t, c, f, th)
                        /\ resp' = Response("delete_item",
                                            DeleteStatus(deleted_count(store, c, f)),
                                            IF DeleteStatus(deleted_count(store, c, f)) = 200
                                            THEN [deleted |-> TRUE] ELSE None,
                                            1)
        /\ UNCHANGED <<nextId, now>>

\* GET /profile: docs = list_items(Profile, limit=1); docs[0] if docs else {}
get_profile(s) ==
    IF list_items(s, "Profile", 1) # <<>> THEN list_items(s, "Profile", 1)[1] ELSE EmptyDoc

GetProfile(t) ==
    /\ th[t].pc = "idle"
    /\ resp' = Response("get_profile", 200, get_profile(store), 1)
    /\ UNCHANGED <<store, nextId, now, th>>

\* the clock moves between any two steps
Tick ==
    /\ now < MaxTime
    /\ now' = now + 1
    /\ resp' = NoResp
    /\ UNCHANGED <<store, nextId, th>>

----------------------------------------------------------------------------
(* The CRUD specification: documents created, patched and deleted by two
   concurrent requests.  The clock stands still and nothing is listed: the
   answers of these handlers that are looked at here depend on neither (the
   update and the profile specifications run the clock). *)

CrudClasses == {"Project", "Certificate"}

\* POST bodies: the required fields of the class
CrudFields(cls) ==
    IF cls = "Project"
    THEN {Model("Project", [title |-> Str(<<"a">>), description |-> Str(<<"d">>)])}
    ELSE {Model("Certificate", [title |-> Str(<<"a">>), organization |-> Str(<<"o">>),
                                date_awarded |-> Date(1), skill_category |-> Str(<<"s">>)])}

\* the PATCH body: one field
CrudData == {[title |-> Str(<<"c">>)]}

UpperTable ==
    [c \in {LowerSeq[i] : i \in 1..Len(LowerSeq)} |->
        UpperSeq[CHOOSE i \in 1..Len(LowerSeq) : LowerSeq[i] = c]]

Upper(s) == [i \in 1..Len(s) |-> IF s[i] \in DOMAIN UpperTable THEN UpperTable[s[i]] ELSE s[i]]

\* ids a client sends: the generated ones and one of them in upper case; and
\* malformed ones: too short, a letter that is no hex digit, and 22 hex
\* digits with two spaces before the last pair
WellFormedIds == {OidOf(n) : n \in 1..MaxIds} \cup {Upper(OidOf(1))}
SpacedId == SubSeq(OidPrefix, 1, 20) \o <<" ", " ">> \o SubSeq(OidPrefix, 21, 22)
MalformedIds == {<<"1">>, OidPrefix \o <<"g">>, SpacedId}
CrudIds == WellFormedIds \cup MalformedIds

EmptyStore == [c \in Collections |-> <<>>]

Init ==
    /\ store = EmptyStore
    /\ nextId = 0
    /\ now = 0
    /\ th = [t \in Threads |-> Idle]
    /\ resp = NoResp

Next ==
    \/ \E t \in Threads, cls \in CrudClasses : \E f \in CrudFields(cls) : CreateInsert(t, cls, f, MaxIds)
    \/ \E t \in Threads : CreateRead(t)
    \/ \E t \in Threads, cls \in CrudClasses, id \in CrudIds, d \in CrudData : UpdateWrite(t, cls, id, d)
    \/ \E t \in Threads : UpdateRead(t)
    \/ \E t \in Threads, cls \in CrudClasses, id \in CrudIds : DeleteItem(t, cls, id)

Spec == Init /\ [][Next]_vars

\* an identifier of the store as text: 24 hex digits
WellFormed(id) == Len(id) = 24 /\ \A i \in 1..Len(id) : id[i] \in HexChars

----------------------------------------------------------------------------
(* The not-found specification: the CRUD specification with the well-formed
   ids alone *)

NotFoundNext ==
    \/ \E t \in Threads, cls \in CrudClasses : \E f \in CrudFields(cls) : CreateInsert(t, cls, f, MaxIds)
    \/ \E t \in Threads : CreateRead(t)
    \/ \E t \in Threads, cls \in CrudClasses, id \in WellFormedIds, d \in CrudData : UpdateWrite(t, cls, id, d)
    \/ \E t \in Threads : UpdateRead(t)
    \/ \E t \in Threads, cls \in CrudClasses, id \in WellFormedIds : DeleteItem(t, cls, id)

SpecNotFound == Init /\ [][NotFoundNext]_vars

\* id is in no collection
Absent(s, id) == \A c \in Collections : find_one(s, c, ObjectId(id)) = None

\* C2: update_item and delete_item on a well-formed id that is not in the
\* kind's collection (never created there, or deleted before) answer 404 and
\* leave the store as it was: a step that answers for one of the two handlers
\* either is such an answer or is no call on an absent id.  A document is
\* only ever added under an identifier not used before, so an identifier that
\* was deleted stays absent and every later delete of it is a 404 too.
C2_NotFound ==
    [][/\ resp'.op = "update_item" =>
            \/ resp'.status = 404 /\ store' = store
            \/ \A t \in Threads, cls \in CrudClasses, id \in WellFormedIds, d \in CrudData :
                  ~(/\ find_one(store, coll_name(cls), ObjectId(id)) = None
                    /\ UpdateWrite(t, cls, id, d))
       /\ resp'.op = "delete_item" =>
            \/ resp'.status = 404 /\ store' = store
            \/ \A t \in Threads, cls \in CrudClasses, id \in WellFormedIds :
                  ~(/\ find_one(store, coll_name(cls), ObjectId(id)) = None
                    /\ DeleteItem(t, cls, id))
       /\ \A c \in Collections :
             Len(store'[c]) > Len(store[c]) =>
                /\ nextId' = nextId + 1
                /\ {store'[c][i]["_id"] : i \in 1..Len(store'[c])}
                     = {store[c][i]["_id"] : i \in 1..Len(store[c])} \cup {Oid(OidOf(nextId'))}
                /\ \A n \in 1..nextId : OidOf(n) # OidOf(nextId')
      ]_vars

\* C2 witness: every identifier of the run was created and deleted, and a
\* further delete_item has just answered 404.
C2_Witness ==
    /\ resp.op = "delete_item" /\ resp.status = 404
    /\ nextId = MaxIds
    /\ \A n \in 1..MaxIds : Absent(store, OidOf(n))

\* C3: update_item and delete_item on an id that is not a well-formed
\* identifier answer 400 having made no store call, and the store is as it
\* was: every step that answers for one of the two handlers either is such an
\* answer or is no call with such an id.
C3_InvalidId ==
    [][resp'.op \in {"update_item", "delete_item"} =>
          \/ resp'.status = 400 /\ resp'.calls = 0 /\ store' = store
          \/ \A t \in Threads, cls \in CrudClasses, id \in {i \in CrudIds : ~WellFormed(i)} :
                /\ \A d \in CrudData : ~UpdateWrite(t, cls, id, d)
                /\ ~DeleteItem(t, cls, id)
      ]_vars

\* C10: create_item answers 200 in every interleaving; when no other request
\* wrote the new document between the insert and the re-read, the body is the
\* inserted record: the assigned id as text under id, no _id, and every input
\* field; when the document is gone at the re-read, the body is the not-found
\* value of the read (None), not a record.
C10_CreateRace ==
    [][\A t \in Threads :
          CreateRead(t) =>
              /\ resp'.op = "create_item" /\ resp'.status = 200
              /\ ~th[t].raced =>
                    /\ ~IsNone(resp'.body)
                    /\ DOMAIN resp'.body = (DOMAIN th[t].data) \cup {"id", "created_at", "updated_at"}
                    /\ resp'.body["id"] = Str(th[t].id)
                    /\ \A k \in DOMAIN th[t].data : resp'.body[k] = th[t].data[k]
              /\ find_one(store, coll_name(th[t].cls), ObjectId(th[t].id)) = None =>
                    resp'.body = None
      ]_vars

\* C10 witness: a create_item whose document was deleted before its re-read
\* has answered with no record.
C10_Witness == resp.op = "create_item" /\ IsNone(resp.body)

----------------------------------------------------------------------------
(* The update specification: two stored projects patched and deleted by two
   concurrent requests while the clock runs *)

\* the store after two POST /projects at clock reading 0
UpdateInit ==
    /\ store = create_document(
                   create_document(EmptyStore, "project", 1,
                       Model("Project", [title |-> Str(<<"a">>), description |-> Str(<<"d">>)]), 0),
                   "project", 2,
                   Model("Project", [title |-> Str(<<"b">>), description |-> Str(<<"e">>)]), 0)
    /\ nextId = 2
    /\ now = 0
    /\ th = [t \in Threads |-> Idle]
    /\ resp = NoResp

UpdateIds == {OidOf(1), OidOf(2), Upper(OidOf(1))}

\* PATCH bodies: one that names a field of the record and carries an
\* updated_at of the caller's, and one that names a field the record lacks
\* (the body is any mapping: nothing checks it against the schema)
UpdateData ==
    {[title |-> Str(<<"c">>), updated_at |-> Str(<<"x">>)],
     [notes |-> Str(<<"u">>)]}

UpdateNext ==
    \/ \E t \in Threads, id \in UpdateIds, d \in UpdateData : UpdateWrite(t, "Project", id, d)
    \/ \E t \in Threads : UpdateRead(t)
    \/ \E t \in Threads, id \in UpdateIds : DeleteItem(t, "Project", id)
    \/ Tick

SpecUpdate == UpdateInit /\ [][UpdateNext]_vars

\* slot t has just made the write of an update_item
Wrote(t) == th[t].pc = "idle" /\ th'[t].pc = "update_read"

\* the patched document new against the document old it replaces, for the
\* PATCH body data at clock reading t
Patched(old, new, data, t) ==
    /\ DOMAIN new = DOMAIN old \cup DOMAIN data \cup {"updated_at"}
    /\ new["_id"] = old["_id"]
    /\ new["updated_at"] = Datetime(t)
    /\ \A k \in DOMAIN data \ {"updated_at"} : new[k] = data[k]
    /\ \A k \in DOMAIN old \ (DOMAIN data \cup {"updated_at"}) : new[k] = old[k]

\* the write of update_item changes the one document as Patched says, and
\* nothing else in the store
UpdateFrame(t) ==
    LET c == coll_name(th'[t].cls)
        oid == ObjectId(th'[t].id)
    IN  /\ \A o \in Collections \ {c} : store'[o] = store[o]
        /\ Len(store'[c]) = Len(store[c])
        /\ \A i \in 1..Len(store[c]) :
              IF store[c][i]["_id"] = oid
              THEN Patched(store[c][i], store'[c][i], th'[t].data, now)
              ELSE store'[c][i] = store[c][i]
        /\ \E i \in 1..Len(store[c]) : store[c][i]["_id"] = oid

\* body is the record doc as a response carries it
Returned(body, doc) ==
    /\ ~IsNone(body)
    /\ DOMAIN body = (DOMAIN doc \ {"_id"}) \cup {"id"}
    /\ body["id"] = Str(doc["_id"].v)
    /\ \A k \in DOMAIN doc \ {"_id"} :
          body[k] = IF doc[k].ty = "datetime" THEN Str(<<"T">> \o Digits(doc[k].v)) ELSE doc[k]

\* C1 as stated: update_item on an existing id changes only the named fields
\* of that record, keeps its identifier, stamps updated_at with the time of
\* the update whatever the body carries, leaves every other record alone,
\* and returns the updated record: a record with that identifier, and the
\* record as the update left it when no other request wrote it since.
C1_Original ==
    [][\A t \in Threads :
          /\ Wrote(t) => UpdateFrame(t)
          /\ UpdateRead(t) =>
                /\ resp'.status = 200
                /\ ~IsNone(resp'.body)
                /\ resp'.body["id"] = Str(Lower(th[t].id))
                /\ ~th[t].raced => Returned(resp'.body, th[t].written)
      ]_vars

\* C1 amended: the effect on the store is as stated; update_item returns the
\* updated record when no other request wrote that document between the
\* update and the re-read, the record as the re-read finds it when another
\* request patched it in between, and None when another request deleted it.
C1_Update ==
    [][\A t \in Threads :
          /\ Wrote(t) => UpdateFrame(t)
          /\ UpdateRead(t) =>
                /\ resp'.status = 200
                /\ ~th[t].raced => Returned(resp'.body, th[t].written)
                /\ IF find_one(store, coll_name(th[t].cls), ObjectId(th[t].id)) = None
                   THEN IsNone(resp'.body)
                   ELSE Returned(resp'.body,
                                 find_one(store, coll_name(th[t].cls), ObjectId(th[t].id)))
      ]_vars

\* C1 witness: an update made at clock reading 1 of a record created at 0 has
\* returned the record with the new title and the new stamp, next to a second
\* record.
C1_Witness ==
    /\ resp.op = "update_item" /\ resp.status = 200
    /\ ~IsNone(resp.body)
    /\ resp.body["title"] = Str(<<"c">>)
    /\ resp.body["updated_at"] = Str(<<"T", "1">>)
    /\ resp.body["created_at"] = Str(<<"T", "0">>)
    /\ Len(store["project"]) = 2

----------------------------------------------------------------------------
(* The profile specification: profiles created, patched and read *)

ProfileFields ==
    {Model("Profile", [name |-> Str(<<n>>), tagline |-> Str(<<"t">>)]) : n \in {"a", "b"}}

ProfileData == {[tagline |-> Str(<<"u">>)]}

ProfileIds == {OidOf(n) : n \in 1..MaxProfiles}

ProfileNext ==
    \/ \E t \in Threads, f \in ProfileFields : CreateInsert(t, "Profile", f, MaxProfiles)
    \/ \E t \in Threads : CreateRead(t)
    \/ \E t \in Threads, id \in ProfileIds, d \in ProfileData : UpdateWrite(t, "Profile", id, d)
    \/ \E t \in Threads : UpdateRead(t)
    \/ \E t \in Threads : GetProfile(t)
    \/ Tick

SpecProfile == Init /\ [][ProfileNext]_vars

\* the profile created last: the one under the newest identifier (nothing
\* deletes a profile, and this specification creates nothing else)
LatestProfile == find_one(store, "profile", Oid(OidOf(nextId)))

\* C4: GET /profile returns the most recently created profile, and {} when
\* there is none.
C4_LatestProfile ==
    resp.op = "get_profile" =>
        IF nextId = 0
        THEN resp.body = EmptyDoc
        ELSE /\ ~IsNone(LatestProfile)
             /\ resp.body = as_serializable(LatestProfile)

----------------------------------------------------------------------------
(* POST /ai/query *)

\* Python's `x or default`
Or(x, default) == IF Truthy(x) THEN x ELSE default

\* q = (payload.question or "").lower()
QueryOf(payload) == Lower(Or(payload.question, Str(<<>>)).v)

\* focus as compared, the variant that forgets to lower-case it
FocusOfAsSent(payload) == Or(payload.focus, Str(<<>>)).v

\* focus = (payload.focus or "").lower()
FocusOf(payload) == Lower(Or(payload.focus, Str(<<>>)).v)

RECURSIVE RankTokens(_, _)
RankTokens(tokens, lowered) ==
    IF tokens = <<>> THEN 0
    ELSE (IF Head(tokens) # <<>> /\ Contains(lowered, Head(tokens)) THEN 1 ELSE 0)
         + RankTokens(Tail(tokens), lowered)

\* rank_text, the variant that counts each distinct token once
rank_text_distinct(q, text) ==
    Cardinality({tok \in {Split(q)[i] : i \in 1..Len(Split(q))} : Contains(Lower(text), tok)})

\* rank_text: one point for every token of q.split() found in text.lower()
rank_text(q, text) == RankTokens(Split(q), Lower(text))

\* d.get(k, "") of a text field, d.get(k, []) of a list field
StrOf(d, k) == Get(d, k, Str(<<>>)).v
ListOf(d, k) == Get(d, k, List(<<>>)).v

Space == <<" ">>

\* the text a record is scored on, per kind of result
ProjectText(d) ==
    Join(Space, <<StrOf(d, "title"), StrOf(d, "description"),
                  Join(Space, ListOf(d, "tech_stack")), Join(Space, ListOf(d, "highlights"))>>)

CertificateText(d) ==
    Join(Space, <<StrOf(d, "title"), StrOf(d, "organization"),
                  StrOf(d, "skill_category"), StrOf(d, "reflection")>>)

JournalText(d) ==
    Join(Space, <<StrOf(d, "title"), StrOf(d, "content_markdown"),
                  Join(Space, ListOf(d, "tags"))>>)

SearchText(kind, d) ==
    CASE kind = "projects" -> ProjectText(d)
      [] kind = "certificates" -> CertificateText(d)
      [] kind = "journal" -> JournalText(d)

ResultKinds == {"projects", "certificates", "journal"}

\* the collection each kind of result is read from
KindColl(kind) ==
    CASE kind = "projects" -> coll_name("Project")
      [] kind = "certificates" -> coll_name("Certificate")
      [] kind = "journal" -> coll_name("JournalEntry")

\* the focus values under which a kind is searched
FocusNames(kind) ==
    CASE kind = "projects" -> {<<>>, <<"p", "r", "o", "j", "e", "c", "t">>, <<"p", "r", "o", "j", "e", "c", "t", "s">>}
      [] kind = "certificates" -> {<<>>, <<"c", "e", "r", "t", "i", "f", "i", "c", "a", "t", "e">>, <<"c", "e", "r", "t", "i", "f", "i", "c", "a", "t", "e", "s">>}
      [] kind = "journal" -> {<<>>, <<"j", "o", "u", "r", "n", "a", "l">>}

Searched(focus) == {k \in ResultKinds : focus \in FocusNames(k)}

\* the sort keys of the serialized documents docs of a kind
KeysOf(q, kind, docs) == [i \in 1..Len(docs) |-> rank_text(q, SearchText(kind, docs[i]))]

\* perm with index j put behind the indices whose key is at least keys[j]
PlaceBehindEqual(perm, j, keys) ==
    LET p == Cardinality({i \in 1..Len(perm) : keys[perm[i]] >= keys[j]})
    IN  SubSeq(perm, 1, p) \o <<j>> \o SubSeq(perm, p + 1, Len(perm))

\* perm with index j put before the indices whose key is at most keys[j]
PlaceBeforeEqual(perm, j, keys) ==
    LET p == Cardinality({i \in 1..Len(perm) : keys[perm[i]] > keys[j]})
    IN  SubSeq(perm, 1, p) \o <<j>> \o SubSeq(perm, p + 1, Len(perm))

RECURSIVE SortFrom(_, _, _)
SortFrom(perm, j, keys) ==
    IF j > Len(keys) THEN perm ELSE SortFrom(PlaceBehindEqual(perm, j, keys), j + 1, keys)

RECURSIVE SortReversingTies(_, _, _)
SortReversingTies(perm, j, keys) ==
    IF j > Len(keys) THEN perm
    ELSE SortReversingTies(PlaceBeforeEqual(perm, j, keys), j + 1, keys)

\* the order of sorted(...)[::-1]: descending, equal keys in reverse order
sorted_then_reversed(keys) == SortReversingTies(<<>>, 1, keys)

\* the order of sorted(..., key=..., reverse=True): the indices by descending
\* key, equal keys in their original order (the sort is stable)
sorted_reverse(keys) == SortFrom(<<>>, 1, keys)

\* ranked[:5]
Top(ranked) == SubSeq(ranked, 1, IF Len(ranked) < TopK THEN Len(ranked) ELSE TopK)

\* the result list of one kind
Ranked(s, q, kind) ==
    LET found == find(s, KindColl(kind))
        docs == [i \in 1..Len(found) |-> as_serializable(found[i])]
        perm == sorted_reverse(KeysOf(q, kind, docs))
    IN  Top([i \in 1..Len(perm) |-> docs[perm[i]]])

\* the keys of one kind, in store order
StoreKeys(s, q, kind) ==
    LET found == find(s, KindColl(kind))
    IN  KeysOf(q, kind, [i \in 1..Len(found) |-> as_serializable(found[i])])

\* f"{x}" of a str or of None
Fmt(x) == IF x.ty = "None" THEN <<"N", "o", "n", "e">> ELSE x.v

\* the fixed text of the summary; "U+2014" stands for the one character U+2014
TopProject == <<"T", "o", "p", " ", "p", "r", "o", "j", "e", "c", "t", ":", " ">>
Tech == <<" ", "U+2014", " ", "t", "e", "c", "h", ":", " ">>
RecentCertificate == <<"R", "e", "c", "e", "n", "t", " ", "c", "e", "r", "t", "i", "f", "i", "c", "a", "t", "e", ":", " ">>
In == <<" ", "i", "n", " ">>
LearningFocus == <<"L", "e", "a", "r", "n", "i", "n", "g", " ", "f", "o", "c", "u", "s", ":", " ">>
CommaSpace == <<",", " ">>

ProjectSentence(top) ==
    TopProject \o Fmt(Get(top, "title", None)) \o Tech
        \o Join(CommaSpace, ListOf(top, "tech_stack")) \o <<".", " ">>

CertificateSentence(top) ==
    RecentCertificate \o Fmt(Get(top, "title", None)) \o In
        \o Fmt(Get(top, "skill_category", None)) \o <<".", " ">>

JournalSentence(top) ==
    LearningFocus
        \o Join(CommaSpace, SubSeq(ListOf(top, "tags"), 1,
                                   IF Len(ListOf(top, "tags")) < 3 THEN Len(ListOf(top, "tags")) ELSE 3))
        \o <<".">>

\* results.get(kind): truthy when the kind was searched and gave a record
HasResults(results, kind) == kind \in DOMAIN results /\ results[kind] # <<>>

Summary(results) ==
    (IF HasResults(results, "projects") THEN ProjectSentence(results["projects"][1]) ELSE <<>>)
    \o (IF HasResults(results, "certificates")
        THEN CertificateSentence(results["certificates"][1]) ELSE <<>>)
    \o (IF HasResults(results, "journal") THEN JournalSentence(results["journal"][1]) ELSE <<>>)

\* the answer, the variant that returns the summary untrimmed
AnswerUntrimmed(results) == Str(Summary(results))

\* the answer: summary.strip()
Answer(results) == Str(Strip(Summary(results)))

\* the kinds in the order ai_query reads them
QueryOrder == <<"projects", "certificates", "journal">>

\* the kinds ai_query has still to read: those its focus searches and its
\* results lack
ToRead(payload, acc) ==
    SelectSeq(QueryOrder,
              LAMBDA k : k \in Searched(FocusOf(payload)) /\ k \notin DOMAIN acc.results)

\* the locals of ai_query after it read kind k from store s
QueryRead(s, payload, acc, k) ==
    [results |-> With(acc.results, k, Ranked(s, QueryOf(payload), k)),
     keys |-> With(acc.keys, k, StoreKeys(s, QueryOf(payload), k)),
     read |-> With(acc.read, k, [i \in 1..Len(find(s, KindColl(k))) |->
                                    as_serializable(find(s, KindColl(k))[i])])]

\* ai_query returns {"answer": summary.strip(), "results": results}
ai_query(payload, acc, calls, raced) ==
    [Response("ai_query", 200, [answer |-> Answer(acc.results), results |-> acc.results],
              calls)
     EXCEPT !.req = payload, !.keys = acc.keys, !.read = acc.read, !.raced = raced]

\* ai_query from the locals acc on, through its next store call: the
\* find() of the next kind it searches, and the answer when that was the
\* last one (or when it searches none).  db is taken to be connected and
\* truthy, so every `... if db else []` reads the store.
QueryStep(t, payload, acc, calls) ==
    LET todo == ToRead(payload, acc)
    IN  IF todo = <<>>
        THEN /\ resp' = ai_query(payload, acc, calls, th[t].raced)
             /\ th' = [th EXCEPT ![t] = Idle]
        ELSE LET now_read == QueryRead(store, payload, acc, Head(todo))
             IN  IF Len(todo) = 1
                 THEN /\ resp' = ai_query(payload, now_read, calls + 1, th[t].raced)
                      /\ th' = [th EXCEPT ![t] = Idle]
                 ELSE /\ resp' = NoResp
                      /\ th' = [th EXCEPT ![t] =
                                  [Idle EXCEPT !.pc = "query", !.data = payload,
                                               !.calls = calls + 1, !.acc = now_read,
                                               !.raced = th[t].raced]]

\* POST /ai/query up to its first store call
AiQuery(t, payload) ==
    /\ th[t].pc = "idle"
    /\ QueryStep(t, payload, [results |-> EmptyDoc, keys |-> EmptyDoc, read |-> EmptyDoc], 0)
    /\ UNCHANGED <<store, nextId, now>>

\* ai_query, a later store call
AiQueryRead(t) ==
    /\ th[t].pc = "query"
    /\ QueryStep(t, th[t].data, th[t].acc, th[t].calls)
    /\ UNCHANGED <<store, nextId, now>>

----------------------------------------------------------------------------
(* The query specification: /ai/query asked of stores drawn from the
   documents below *)

Cafe == <<"C", "a", "f", "U+00E9">>

DataPipeline ==
    Model("Project",
          [title |-> Str(<<"D", "a", "t", "a", " ", "P", "i", "p", "e", "l", "i", "n", "e">>),
           description |-> Str(<<>>),
           tech_stack |-> List(<<<<"P", "y", "t", "h", "o", "n">>, <<"S", "Q", "L">>>>)])

GameEngine ==
    Model("Project",
          [title |-> Str(<<"G", "a", "m", "e", " ", "E", "n", "g", "i", "n", "e">>),
           description |-> Str(<<>>),
           tech_stack |-> List(<<<<"C", "+", "+">>>>),
           highlights |-> List(<<Cafe>>)])

AwsArchitect ==
    Model("Certificate",
          [title |-> Str(<<"A", "W", "S", " ", "A", "r", "c", "h", "i", "t", "e", "c", "t">>),
           organization |-> Str(<<"A", "m", "a", "z", "o", "n">>),
           date_awarded |-> Date(1),
           skill_category |-> Str(<<"C", "l", "o", "u", "d">>)])

DataAnalyst ==
    Model("Certificate",
          [title |-> Str(<<"D", "a", "t", "a", " ", "A", "n", "a", "l", "y", "s", "t">>),
           organization |-> Str(<<"G", "o", "o", "g", "l", "e">>),
           date_awarded |-> Date(2),
           skill_category |-> Str(<<"D", "a", "t", "a">>),
           reflection |-> Str(<<"s", "q", "l">>)])

LearningRust ==
    Model("JournalEntry",
          [title |-> Str(<<"L", "e", "a", "r", "n", "i", "n", "g", " ", "R", "u", "s", "t">>),
           content_markdown |-> Str(<<"o", "w", "n", "e", "r", "s", "h", "i", "p">>),
           tags |-> List(<<<<"r", "u", "s", "t">>, <<"s", "y", "s", "t", "e", "m", "s">>,
                           <<"m", "e", "m", "o", "r", "y">>, <<"n", "o", "t", "e", "s">>>>),
           date_logged |-> Date(1)])

PythonTips ==
    Model("JournalEntry",
          [title |-> Str(<<"P", "y", "t", "h", "o", "n", " ", "t", "i", "p", "s">>),
           content_markdown |-> Str(<<"d", "a", "t", "a", " ", "c", "l", "a", "s", "s", "e", "s">>),
           date_logged |-> Date(2)])

\* the models POSTed per kind of result
KindFields(kind) ==
    CASE kind = "projects" -> {DataPipeline, GameEngine}
      [] kind = "certificates" -> {AwsArchitect, DataAnalyst}
      [] kind = "journal" -> {LearningRust, PythonTips}

SeqsUpTo(S, n) == UNION {[1..m -> S] : m \in 0..n}

\* the store after the models ps, cs and js were POSTed in this order
Populated(ps, cs, js) ==
    [c \in Collections |->
        CASE c = "project" -> [i \in 1..Len(ps) |-> NewDoc(i, ps[i], 0)]
          [] c = "certificate" -> [i \in 1..Len(cs) |-> NewDoc(Len(ps) + i, cs[i], 0)]
          [] c = "journalentry" -> [i \in 1..Len(js) |-> NewDoc(Len(ps) + Len(cs) + i, js[i], 0)]
          [] OTHER -> <<>>]

\* one kind holds up to MaxDocs documents, the other two one each or none
QueryStores ==
    {Populated(ps, IF n = 0 THEN <<>> ELSE <<AwsArchitect>>,
                   IF n = 0 THEN <<>> ELSE <<LearningRust>>) :
        ps \in SeqsUpTo(KindFields("projects"), MaxDocs), n \in {0, 1}}
    \cup {Populated(IF n = 0 THEN <<>> ELSE <<GameEngine>>, cs,
                    IF n = 0 THEN <<>> ELSE <<LearningRust>>) :
        cs \in SeqsUpTo(KindFields("certificates"), MaxDocs), n \in {0, 1}}
    \cup {Populated(IF n = 0 THEN <<>> ELSE <<GameEngine>>,
                    IF n = 0 THEN <<>> ELSE <<AwsArchitect>>, js) :
        js \in SeqsUpTo(KindFields("journal"), MaxDocs), n \in {0, 1}}

PythonData == <<"p", "y", "t", "h", "o", "n", " ", "d", "a", "t", "a">>
AwsCloud == <<"a", "w", "s", " ", "c", "l", "o", "u", "d">>

\* questions: the spec's example, none, one only a certificate matches, one
\* with a repeated token, upper case (E acute among it) and runs of several
\* kinds of whitespace, a part of a word
Questions ==
    {PythonData, <<>>, AwsCloud,
     <<"D", "A", "T", "A", " ", "U+00A0", "d", "a", "t", "a", "\t", "E", "n", "g", "i", "n", "e",
       "U+000B", "C", "A", "F", "U+00C9", " ">>,
     <<"p", "i", "p", "e">>}

\* focus values: unset, empty, the recognised names in several cases, and
\* names that are not recognised
Focuses ==
    {None, Str(<<>>), Str(<<"p", "r", "o", "j", "e", "c", "t", "s">>), Str(<<"P", "r", "o", "j", "e", "c", "t">>), Str(<<"c", "e", "r", "t", "i", "f", "i", "c", "a", "t", "e", "s">>),
     Str(<<"C", "E", "R", "T", "I", "F", "I", "C", "A", "T", "E">>), Str(<<"j", "o", "u", "r", "n", "a", "l">>), Str(<<"j", "o", "u", "r", "n", "a", "l", "s">>), Str(<<"m", "i", "l", "e", "s", "t", "o", "n", "e", "s">>)}

Payloads ==
    {[question |-> Str(q), focus |-> None] : q \in Questions}
    \cup {[question |-> Str(PythonData), focus |-> f] : f \in Focuses}

QueryInit ==
    /\ store \in QueryStores
    /\ nextId = Len(store["project"]) + Len(store["certificate"]) + Len(store["journalentry"])
    /\ now = 0
    /\ th = [t \in Threads |-> Idle]
    /\ resp = NoResp

\* the classes ai_query reads
QueryClasses == {"Project", "Certificate", "JournalEntry"}

\* One query is asked of each store, on the first slot (a query leaves the
\* store as it is, and both slots answer alike).  While it runs, a request on
\* the second slot deletes the oldest record of a kind, once.
QueryNext ==
    \/ th[1].pc = "idle" /\ resp = NoResp /\ \E p \in Payloads : AiQuery(1, p)
    \/ AiQueryRead(1)
    \/ /\ th[1].pc = "query" /\ ~th[1].raced
       /\ \E cls \in QueryClasses :
             /\ store[coll_name(cls)] # <<>>
             /\ DeleteItem(2, cls, store[coll_name(cls)][1]["_id"].v)

SpecQuery == QueryInit /\ [][QueryNext]_vars

\* the question and focus of the query just answered, as sent
AskedQuestion == resp.req.question.v
AskedFocus == IF IsNone(resp.req.focus) THEN <<>> ELSE resp.req.focus.v

\* the stored records of a kind as a response carries them, in store order:
\* those the query read, or, of a kind it did not read, those in the store
Stored(kind) ==
    IF kind \in DOMAIN resp.read THEN resp.read[kind]
    ELSE [i \in 1..Len(store[KindColl(kind)]) |-> as_serializable(store[KindColl(kind)][i])]

\* the positions where a whitespace-separated token of q starts, and the token
TokenStarts(q) == {i \in 1..Len(q) : q[i] \notin Whitespace /\ (i = 1 \/ q[i - 1] \in Whitespace)}

TokenAt(q, i) ==
    SubSeq(q, i, CHOOSE e \in i..Len(q) :
                    /\ \A m \in i..e : q[m] \notin Whitespace
                    /\ (e = Len(q) \/ q[e + 1] \in Whitespace))

\* the searchable texts of a record: its text fields and the elements of its
\* list fields (a token holds no whitespace, so it occurs in their
\* space-joined text exactly when it occurs in one of them)
Elements(l) == {l[i] : i \in 1..Len(l)}

Pieces(kind, d) ==
    CASE kind = "projects" ->
            {d["title"].v, d["description"].v}
                \cup Elements(d["tech_stack"].v) \cup Elements(d["highlights"].v)
      [] kind = "certificates" ->
            {d["title"].v, d["organization"].v, d["skill_category"].v, d["reflection"].v}
      [] kind = "journal" ->
            {d["title"].v, d["content_markdown"].v} \cup Elements(d["tags"].v)

\* the number of tokens of the lower-cased question, with repetition, that
\* occur in a searchable text of d, case ignored
TokenScore(q, kind, d) ==
    Cardinality({i \in TokenStarts(Lower(q)) :
                    \E piece \in Pieces(kind, d) :
                        Contains(Lower(piece), TokenAt(Lower(q), i))})

\* C5: the score of every record searched is the number of tokens of the
\* lower-cased question, with repetition, that occur in its search text, case
\* ignored; "python data" scores Data Pipeline 2 and Game Engine 0, and an
\* empty question scores every record 0.
C5_Score ==
    resp.op = "ai_query" =>
        \A k \in DOMAIN resp.keys :
            /\ Len(resp.keys[k]) = Len(Stored(k))
            /\ \A i \in 1..Len(Stored(k)) :
                  /\ resp.keys[k][i] = TokenScore(AskedQuestion, k, Stored(k)[i])
                  /\ AskedQuestion = <<>> => resp.keys[k][i] = 0
                  /\ (AskedQuestion = PythonData /\ k = "projects") =>
                        resp.keys[k][i] = IF Stored(k)[i]["title"] = DataPipeline["title"] THEN 2 ELSE 0

\* C5 witness: "python data" was asked of a store that holds both projects
\* of the example, and they scored 2 and 0.
C5_Witness ==
    /\ resp.op = "ai_query" /\ AskedQuestion = PythonData
    /\ "projects" \in DOMAIN resp.keys
    /\ \E i, j \in 1..Len(resp.keys["projects"]) :
          /\ resp.keys["projects"][i] = 2 /\ Stored("projects")[i]["title"] = DataPipeline["title"]
          /\ resp.keys["projects"][j] = 0 /\ Stored("projects")[j]["title"] = GameEngine["title"]

\* the place of record j of n in the order by descending key, ties by store order
PlaceOf(keys, j) ==
    1 + Cardinality({m \in 1..Len(keys) : keys[m] > keys[j] \/ (keys[m] = keys[j] /\ m < j)})

\* C6: the list returned for each kind searched holds min(5, n) records, the
\* record at place p of the order by descending score (equal scores in store
\* order) at position p, and no record left out scores higher than one in it.
C6_TopFive ==
    resp.op = "ai_query" =>
        \A k \in DOMAIN resp.body.results :
            LET list == resp.body.results[k]
                keys == resp.keys[k]
                n == Len(Stored(k))
            IN  /\ Len(list) = IF n < 5 THEN n ELSE 5
                /\ \A j \in 1..n :
                      IF PlaceOf(keys, j) <= 5
                      THEN list[PlaceOf(keys, j)] = Stored(k)[j]
                      ELSE \A i \in 1..n : PlaceOf(keys, i) <= 5 => keys[j] <= keys[i]

\* C6 witness: more than five records of one kind were searched, with equal
\* and with different scores, a lower one stored before a higher one.
C6_Witness ==
    /\ resp.op = "ai_query"
    /\ \E k \in DOMAIN resp.body.results :
          /\ Len(Stored(k)) > 5 /\ Len(resp.body.results[k]) = 5
          /\ \E i, j \in 1..Len(Stored(k)) : i < j /\ resp.keys[k][i] < resp.keys[k][j]
          /\ \E i, j \in 1..5 :
                /\ i < j /\ resp.keys[k][i] = resp.keys[k][j]
                /\ resp.keys[k][i] > resp.keys[k][Len(Stored(k))]

\* the kinds the claim has a focus value search
FocusKinds(f) ==
    IF f = <<>> THEN {"projects", "certificates", "journal"}
    ELSE IF f \in {<<"p", "r", "o", "j", "e", "c", "t">>, <<"p", "r", "o", "j", "e", "c", "t", "s">>} THEN {"projects"}
    ELSE IF f \in {<<"c", "e", "r", "t", "i", "f", "i", "c", "a", "t", "e">>, <<"c", "e", "r", "t", "i", "f", "i", "c", "a", "t", "e", "s">>} THEN {"certificates"}
    ELSE IF f = <<"j", "o", "u", "r", "n", "a", "l">> THEN {"journal"}
    ELSE {}

\* C7: the kinds in results are decided by the lower-cased focus alone: all
\* three for an unset or empty focus, the one kind for project(s),
\* certificate(s) or journal, and none, with an empty answer, for any other
\* value ("journals" among them).
C7_Focus ==
    resp.op = "ai_query" =>
        /\ DOMAIN resp.body.results = FocusKinds(Lower(AskedFocus))
        /\ FocusKinds(Lower(AskedFocus)) = {} => resp.body.answer = Str(<<>>)

\* C7 witness: focus "CERTIFICATE" put certificates alone in results while
\* projects and journal entries are stored.
C7_Witness ==
    /\ resp.op = "ai_query"
    /\ AskedFocus = <<"C", "E", "R", "T", "I", "F", "I", "C", "A", "T", "E">>
    /\ DOMAIN resp.body.results = {"certificates"}
    /\ resp.body.results["certificates"] # <<>>
    /\ store["project"] # <<>> /\ store["journalentry"] # <<>>

\* the certificate sentence of an answer that holds nothing else
CertificateOnly(top) ==
    Str(RecentCertificate \o top["title"].v \o In \o top["skill_category"].v \o <<".">>)

\* C8 as stated: when some certificate matches the question and every stored
\* project and journal entry scores 0, the answer is the certificate sentence
\* alone.
C8_Original ==
    (/\ resp.op = "ai_query"
     /\ "certificates" \in DOMAIN resp.keys
     /\ \E i \in 1..Len(resp.keys["certificates"]) : resp.keys["certificates"][i] > 0
     /\ \A i \in 1..Len(Stored("projects")) :
           TokenScore(AskedQuestion, "projects", Stored("projects")[i]) = 0
     /\ \A i \in 1..Len(Stored("journal")) :
           TokenScore(AskedQuestion, "journal", Stored("journal")[i]) = 0)
    => resp.body.answer = CertificateOnly(resp.body.results["certificates"][1])

\* C8 amended: the answer is the certificate sentence alone when certificates
\* are the only kind with a result, that is when every other kind is not
\* searched or has no stored record; a kind that is searched and has a stored
\* record adds its sentence whatever its records score.
C8_Summary ==
    resp.op = "ai_query" =>
        /\ (/\ HasResults(resp.body.results, "certificates")
            /\ \A k \in {"projects", "journal"} :
                  k \notin DOMAIN resp.body.results \/ Stored(k) = <<>>)
           => resp.body.answer = CertificateOnly(resp.body.results["certificates"][1])
        /\ ("projects" \in DOMAIN resp.body.results /\ Stored("projects") # <<>>)
           => SubSeq(resp.body.answer.v, 1, Len(TopProject)) = TopProject
        /\ ("journal" \in DOMAIN resp.body.results /\ Stored("journal") # <<>>)
           => \E i \in 1..Len(resp.body.answer.v) :
                 SubSeq(resp.body.answer.v, i, i + Len(LearningFocus) - 1) = LearningFocus

\* C8 witness: only certificates were searched, of a store that holds
\* projects and journal entries too, and the answer is the one sentence.
C8_Witness ==
    /\ resp.op = "ai_query"
    /\ DOMAIN resp.body.results = {"certificates"}
    /\ store["project"] # <<>> /\ store["journalentry"] # <<>>
    /\ \E i \in 1..Len(resp.keys["certificates"]) : resp.keys["certificates"][i] > 0
    /\ resp.body.answer = CertificateOnly(resp.body.results["certificates"][1])

----------------------------------------------------------------------------
(* GET /stats *)

\* the snapshots find_one(sort=[("date_captured", 1)]) may return: ascending
OldestSnapshots(s) ==
    LET docs == find(s, coll_name("SkillSnapshot"))
    IN  {docs[i] : i \in {j \in 1..Len(docs) :
                             \A m \in 1..Len(docs) :
                                 docs[m]["date_captured"].v >= docs[j]["date_captured"].v}}

\* the snapshots find_one(sort=[("date_captured", -1)]) may return: those of
\* the greatest date_captured (the store does not say which of several)
LatestSnapshots(s) ==
    LET docs == find(s, coll_name("SkillSnapshot"))
    IN  {docs[i] : i \in {j \in 1..Len(docs) :
                             \A m \in 1..Len(docs) :
                                 docs[m]["date_captured"].v <= docs[j]["date_captured"].v}}

\* len(latest_snapshot.get("skills", {})) if latest_snapshot else 0
skills_mastered(latest) ==
    IF IsNone(latest) THEN 0 ELSE Cardinality(DOMAIN Get(latest, "skills", Dict(EmptyDoc)).v)

\* what get_stats returns for the three counts in acc and the snapshot its
\* find_one gave
get_stats(acc, latest) ==
    [total_projects |-> acc.projects,
     total_certificates |-> acc.certs,
     total_journal_entries |-> acc.journal,
     skills_mastered |-> skills_mastered(latest)]

\* GET /stats up to its first store call: count_documents of the projects.
\* db is taken to be connected and truthy, so every `... if db else 0` reads
\* the store.
GetStats(t) ==
    /\ th[t].pc = "idle"
    /\ th' = [th EXCEPT ![t] =
                [Idle EXCEPT !.pc = "stats", !.calls = 1,
                             !.acc = [projects |-> count_documents(store, coll_name("Project"))]]]
    /\ resp' = NoResp
    /\ UNCHANGED <<store, nextId, now>>

\* get_stats, a later store call: the count of the certificates, the count of
\* the journal entries, then the find_one of the latest snapshot and the answer
StatsRead(t) ==
    /\ th[t].pc = "stats"
    /\ IF "certs" \notin DOMAIN th[t].acc
       THEN /\ th' = [th EXCEPT ![t].calls = 2,
                                ![t].acc = With(@, "certs",
                                                count_documents(store, coll_name("Certificate")))]
            /\ resp' = NoResp
       ELSE IF "journal" \notin DOMAIN th[t].acc
       THEN /\ th' = [th EXCEPT ![t].calls = 3,
                                ![t].acc = With(@, "journal",
                                                count_documents(store, coll_name("JournalEntry")))]
            /\ resp' = NoResp
       ELSE /\ \E latest \in (IF LatestSnapshots(store) = {} THEN {None}
                              ELSE LatestSnapshots(store)) :
                  resp' = [Response("get_stats", 200, get_stats(th[t].acc, latest), 4)
                           EXCEPT !.raced = th[t].raced]
            /\ th' = [th EXCEPT ![t] = Idle]
    /\ UNCHANGED <<store, nextId, now>>

----------------------------------------------------------------------------
(* The stats specification: the statistics read on the first slot while the
   second creates snapshots and other records and deletes projects (a
   request for statistics meets another only through the store, so one is
   enough) *)

\* snapshots: an earlier one with two skills, and two of one later date, with
\* one skill and with none sent
SnapshotFields ==
    {Model("SkillSnapshot", [date_captured |-> Date(1),
                             skills |-> Dict([python |-> 80, sql |-> 60])]),
     Model("SkillSnapshot", [date_captured |-> Date(2), skills |-> Dict([python |-> 80])]),
     Model("SkillSnapshot", [date_captured |-> Date(2)])}

StatsFields(cls) ==
    CASE cls = "SkillSnapshot" -> SnapshotFields
      [] cls = "Project" -> {GameEngine}
      [] cls = "Certificate" -> {AwsArchitect}
      [] cls = "JournalEntry" -> {PythonTips}

StatsClasses == {"SkillSnapshot", "Project", "Certificate", "JournalEntry"}

StatsNext ==
    \/ \E cls \in StatsClasses : \E f \in StatsFields(cls) : CreateInsert(2, cls, f, MaxStatIds)
    \/ CreateRead(2)
    \/ \E n \in 1..MaxStatIds : DeleteItem(2, "Project", OidOf(n))
    \/ GetStats(1)
    \/ StatsRead(1)

SpecStats == Init /\ [][StatsNext]_vars

\* the number of records of a collection
Records(c) == Cardinality({store[c][i]["_id"] : i \in 1..Len(store[c])})

\* the stored snapshots
Snapshots == {store["skillsnapshot"][i] : i \in 1..Len(store["skillsnapshot"])}

\* C9: when no request wrote while GET /stats ran, it returns as
\* skills_mastered the number of keys of the skills mapping of a snapshot of
\* the greatest date_captured (0 when there is no snapshot), and as the three
\* totals the number of records of each collection.
C9_Stats ==
    (resp.op = "get_stats" /\ ~resp.raced) =>
        /\ resp.body.total_projects = Records("project")
        /\ resp.body.total_certificates = Records("certificate")
        /\ resp.body.total_journal_entries = Records("journalentry")
        /\ IF Snapshots = {}
           THEN resp.body.skills_mastered = 0
           ELSE \E sn \in Snapshots :
                   /\ \A o \in Snapshots : o["date_captured"].v <= sn["date_captured"].v
                   /\ resp.body.skills_mastered = Cardinality(DOMAIN sn["skills"].v)

\* C9 witness: of two snapshots the later one, stored first, has one skill and
\* the earlier one two; the statistics, read with no write meanwhile, say 1,
\* next to one project.
C9_Witness ==
    /\ resp.op = "get_stats" /\ ~resp.raced
    /\ Len(store["skillsnapshot"]) = 2
    /\ store["skillsnapshot"][1]["date_captured"] = Date(2)
    /\ store["skillsnapshot"][2]["date_captured"] = Date(1)
    /\ Cardinality(DOMAIN store["skillsnapshot"][2]["skills"].v) = 2
    /\ resp.body.skills_mastered = 1
    /\ resp.body.total_projects = 1

====
